---------------------------- MODULE Spec2Model ----------------------------
(***************************************************************************)
(* A model of the calculator examples of zoosky/go-examples:               *)
(*   - pkg/calculator     the arithmetic engine (Calculator and the        *)
(*                        package-level functions),                        *)
(*   - cmd/calcservice    the HTTP service (/calculate and /health),       *)
(*   - cmd/calcclient     the interactive client of that service.          *)
(*                                                                         *)
(* Strings are sequences of atoms: a literal of the program is one atom    *)
(* (<<"Division by zero">>), a text that the program inspects character by *)
(* character (an operation name, a numeral) is spelled out character by    *)
(* character, and Go's + on strings is \o.  The empty string is << >>.     *)
(*                                                                         *)
(* Go's int is modelled as a two's-complement integer of IntBits bits.     *)
(***************************************************************************)
EXTENDS Integers, Sequences, FiniteSets, TLC

VARIABLES
    engine,     \* the last direct use of the arithmetic engine
    logSystem,  \* the logging backend the service was started with
    calc,       \* the last exchange on POST /calculate
    health,     \* the last exchange on GET /health
    client,     \* the client process (cmd/calcclient)
    codec,      \* a CalculationResponse on its way from the service to the client
    server,     \* the service process: main, the listener and the requests
    slogger,    \* a use of pkg/slogger's Logger
    pool,       \* the /calculate handlers that run at the same time
    app         \* a command of the interactive application (cmd/app)

vars == <<engine, logSystem, calc, health, client, codec, server, slogger, pool, app>>

----------------------------------------------------------------------------
(* Bounds of the model *)

\* The most tokens after the first on an input line of the client.
MaxArgs == 3

\* The most input lines a client session reads.
MaxCommands == 2

\* The longest operation name in an "Unknown operation" message.
MaxNameLen == 2

\* The most key/value attributes of a call of slogger's Logger.
MaxAttrs == 2

\* The most /calculate handlers that run at the same time.
MaxConcurrent == 2

\* The most requests the service process receives in a run.
MaxRequests == 3

\* Width of Go's int in the model (64 in the build; TLC's integers are 32 bits wide).
IntBits == 4

----------------------------------------------------------------------------
(* Go's int *)

RECURSIVE Pow2(_)
Pow2(n) == IF n = 0 THEN 1 ELSE 2 * Pow2(n - 1)

Modulus == Pow2(IntBits)
MaxInt  == Pow2(IntBits - 1) - 1
MinInt  == -Pow2(IntBits - 1)
GoInt   == MinInt..MaxInt

\* The value a fixed-width register holds after an operation whose
\* mathematical result is x.
Wrap(x) == ((x - MinInt) % Modulus) + MinInt

Abs(x) == IF x < 0 THEN -x ELSE x

\* Go's / on integers: the quotient truncated toward zero (b # 0).
QuotFloor(a, b) == a \div b

Quot(a, b) ==
    IF (a < 0) = (b < 0) THEN Abs(a) \div Abs(b) ELSE -(Abs(a) \div Abs(b))

----------------------------------------------------------------------------
(* Logging: the calls a handler or the engine makes are recorded as events *)
(* of a trace, in program order.                                           *)

\* ev: the kind of step; what: its detail, of a type that depends on ev alone.
Event(e, a) == [ev |-> e, what |-> a]

\* The logger implementations: zap (pkg/logger), slog behind SlogAdapter and
\* calculatorLoggerAdapter, and the calculator's inert noOpLogger.
LogSystems == {"zap", "slog"}
NoOpLogger == "noop"

\* The level at which a call of the logging port is emitted by the backend.
\* SlogAdapter has no Warn and no Debug: both are emitted through Info;
\* calculatorLoggerAdapter sends Debugf and Warnf to Infof.
\* slogger's Fatal emits at slog's error level (slog has no fatal level).
EmittedLevel(lg, level) ==
    IF lg = "slog" /\ level \in {"warn", "debug"} THEN "info"
    ELSE IF lg = "slog" /\ level = "fatal" THEN "error"
    ELSE level

\* One call of the logging port (port: the method called; level: the level of
\* the entry the backend emits): nothing at all with the no-op logger.
Log(lg, level) ==
    IF lg = NoOpLogger
    THEN << >>
    ELSE << Event("log", [port |-> level, level |-> EmittedLevel(lg, level)]) >>

----------------------------------------------------------------------------
(* pkg/calculator: the arithmetic engine *)

AddNoWrap(lg, a, b) ==
    [result |-> a + b,
     trace  |-> << Event("call", "Add") >> \o Log(lg, "info") \o Log(lg, "debug")]

Calculator_Add(lg, a, b) ==
    [result |-> Wrap(a + b),
     trace  |-> << Event("call", "Add") >> \o Log(lg, "info") \o Log(lg, "debug")]

Calculator_Subtract(lg, a, b) ==
    [result |-> Wrap(a - b),
     trace  |-> << Event("call", "Subtract") >> \o Log(lg, "info") \o Log(lg, "debug")]

Calculator_Multiply(lg, a, b) ==
    [result |-> Wrap(a * b),
     trace  |-> << Event("call", "Multiply") >> \o Log(lg, "info") \o Log(lg, "debug")]

\* A division by zero that reaches Go's / is a run-time panic: the call
\* returns no value.
Panic == Event("panic", "integer divide by zero")

Calculator_DivideNoGuard(lg, a, b) ==
    IF b = 0
    THEN [result |-> 0,
          trace  |-> << Event("call", "Divide") >> \o Log(lg, "info") \o << Panic >>]
    ELSE [result |-> Wrap(Quot(a, b)),
          trace  |-> << Event("call", "Divide") >> \o Log(lg, "info") \o Log(lg, "debug")]

Calculator_Divide(lg, a, b) ==
    IF b = 0
    THEN [result |-> 0,
          trace  |-> << Event("call", "Divide") >> \o Log(lg, "info") \o Log(lg, "error")]
    ELSE [result |-> Wrap(Quot(a, b)),
          trace  |-> << Event("call", "Divide") >> \o Log(lg, "info") \o Log(lg, "debug")]

\* The package-level functions: a Calculator with the no-op logger.
Add(a, b)      == Calculator_Add(NoOpLogger, a, b).result

SubtractViaAdd(a, b) == Calculator_Add(NoOpLogger, a, b).result

Subtract(a, b) == Calculator_Subtract(NoOpLogger, a, b).result
Multiply(a, b) == Calculator_Multiply(NoOpLogger, a, b).result
Divide(a, b)   == Calculator_Divide(NoOpLogger, a, b).result

\* The engine before a call: the logger it was constructed with and the
\* operands of the call to come.
EngineIdle(lg, a, b) ==
    [op |-> "none", lg |-> lg, a |-> a, b |-> b, result |-> 0, trace |-> << >>]

\* A direct call of a Calculator method, as the tests and cmd/app make it.
CallEngine(op) ==
    LET r == CASE op = "Add"      -> Calculator_Add(engine.lg, engine.a, engine.b)
               [] op = "Subtract" -> Calculator_Subtract(engine.lg, engine.a, engine.b)
               [] op = "Multiply" -> Calculator_Multiply(engine.lg, engine.a, engine.b)
               [] op = "Divide"   -> Calculator_Divide(engine.lg, engine.a, engine.b)
    IN  /\ engine.op = "none"
        /\ engine' = [engine EXCEPT !.op = op, !.result = r.result, !.trace = r.trace]
        /\ UNCHANGED <<logSystem, calc, health, client, codec, server, slogger, pool, app>>

CallAdd      == CallEngine("Add")
CallSubtract == CallEngine("Subtract")
CallMultiply == CallEngine("Multiply")
CallDivide   == CallEngine("Divide")

----------------------------------------------------------------------------
(* Strings of the programs *)

OpAdd      == << "a", "d", "d" >>
OpSubtract == << "s", "u", "b", "t", "r", "a", "c", "t" >>
OpMultiply == << "m", "u", "l", "t", "i", "p", "l", "y" >>
OpDivide   == << "d", "i", "v", "i", "d", "e" >>

MsgInvalidRequest   == << "Invalid request format" >>
MsgDivisionByZero   == << "Division by zero" >>
MsgUnknownOperation == << "Unknown operation: " >>
MsgInternalError    == << "Internal server error" >>

StatusOK                  == 200
StatusBadRequest          == 400
StatusInternalServerError == 500

ContentTypeJSON == "application/json"
ContentTypeText == "text/plain; charset=utf-8"

----------------------------------------------------------------------------
(* encoding/json, as far as the programs use it.  A JSON value carries its *)
(* type; an object is a function from its keys to values; a body is a JSON *)
(* object, or bytes that are no JSON value at all.                         *)

JString(s) == [t |-> "string", v |-> s]
JNumber(n) == [t |-> "number", v |-> n]
JBool(b)   == [t |-> "bool",   v |-> b]
JAbsent    == [t |-> "absent", v |-> 0]

\* A payload on the wire: a JSON object, bytes that are no JSON, or a text.
JObject(obj) == [kind |-> "object", obj |-> obj]
Garbage      == [kind |-> "garbage", obj |-> [bytes |-> JAbsent]]
PlainText(s) == [kind |-> "text", obj |-> [text |-> JString(s)]]

\* The object with the members of `all` that are present.
Members(all) ==
    LET keys == {k \in DOMAIN all : all[k].t # "absent"}
    IN  [k \in keys |-> all[k]]

\* A decoder that demands every member.
FieldRequired(obj, key, want, zero) ==
    IF key \notin DOMAIN obj THEN [err |-> TRUE, v |-> zero]
    ELSE IF obj[key].t # want THEN [err |-> TRUE, v |-> zero]
    ELSE IF want = "number" /\ obj[key].v \notin GoInt THEN [err |-> TRUE, v |-> zero]
    ELSE [err |-> FALSE, v |-> obj[key].v]

\* Decoding one member into a Go field of type `want`: an absent member leaves
\* the field's zero value and is no error; a member of another JSON type, or a
\* number that does not fit an int, is an error.
Field(obj, key, want, zero) ==
    IF key \notin DOMAIN obj THEN [err |-> FALSE, v |-> zero]
    ELSE IF obj[key].t # want THEN [err |-> TRUE, v |-> zero]
    ELSE IF want = "number" /\ obj[key].v \notin GoInt THEN [err |-> TRUE, v |-> zero]
    ELSE [err |-> FALSE, v |-> obj[key].v]

\* json.NewDecoder(r.Body).Decode(&req) with req a CalculationRequest.
DecodeRequest(body) ==
    IF body.kind # "object"
    THEN [err |-> TRUE, req |-> [Operation |-> << >>, A |-> 0, B |-> 0]]
    ELSE LET op == Field(body.obj, "operation", "string", << >>)
             a  == Field(body.obj, "a", "number", 0)
             b  == Field(body.obj, "b", "number", 0)
         IN  [err |-> op.err \/ a.err \/ b.err,
              req |-> [Operation |-> op.v, A |-> a.v, B |-> b.v]]

\* A CalculationResponse encoded: "error" carries omitempty.
EncodeResponse(resp) ==
    JObject(IF resp.Error = << >>
            THEN [result |-> JNumber(resp.Result), success |-> JBool(resp.Success)]
            ELSE [result |-> JNumber(resp.Result), success |-> JBool(resp.Success),
                  error |-> JString(resp.Error)])

\* map[string]bool{"status": true} encoded.
EncodeHealth == JObject([status |-> JBool(TRUE)])

----------------------------------------------------------------------------
(* net/http's ResponseWriter, as the handlers use it.  An exchange is the  *)
(* writer's state and the trace of what the handler did, in program order. *)
(* status = 0: no status line written yet.  connOk: writes to the          *)
(* connection succeed (FALSE: the peer is gone and every write fails).     *)

NewExchange(connOk) ==
    [header |-> "", status |-> 0, contentType |-> "", body |-> << >>,
     connOk |-> connOk, trace |-> << >>]

Traced(x, e, a) == [x EXCEPT !.trace = Append(@, Event(e, a))]

Logged(x, lg, level) == [x EXCEPT !.trace = @ \o Log(lg, level)]

\* w.Header().Set("Content-Type", ct)
SetContentType(x, ct) == Traced([x EXCEPT !.header = ct], "set_header", ct)

\* w.WriteHeader(code): the first call commits the status line and the headers
\* as they are then; a later call is superfluous and changes nothing.
WriteHeader(x, code) ==
    IF x.status = 0
    THEN Traced([x EXCEPT !.status = code, !.contentType = x.header], "write_header", code)
    ELSE Traced(x, "superfluous_write_header", code)

\* w.Write(payload): commits status 200 when none is committed yet.
Write(x, payload) ==
    LET y == IF x.status = 0 THEN WriteHeader(x, StatusOK) ELSE x
    IN  IF y.connOk
        THEN Traced([y EXCEPT !.body = Append(@, payload)], "write", payload)
        ELSE Traced(y, "write_failed", payload)

\* json.NewEncoder(w).Encode(v) fails exactly when the write does.
EncodeFailed(x) == ~x.connOk

\* http.Error(w, msg, code)
HttpError(x, msg, code) ==
    Write(WriteHeader(SetContentType(x, ContentTypeText), code), PlainText(msg))

----------------------------------------------------------------------------
(* cmd/calcservice: the handlers *)

\* A slip in sendErrorResponse: the envelope's result is the status code.
sendErrorResponseWithCode(x, lg, message, statusCode) ==
    LET resp == [Result |-> statusCode, Success |-> FALSE, Error |-> message]
        x1   == Logged(x, lg, "warn")
        x2   == SetContentType(x1, ContentTypeJSON)
        x3   == WriteHeader(x2, statusCode)
        x4   == Write(x3, EncodeResponse(resp))
    IN  IF EncodeFailed(x4)
        THEN HttpError(Logged(x4, lg, "error"), MsgInternalError, StatusInternalServerError)
        ELSE x4

\* A slip in sendErrorResponse: the warning is logged after the response.
sendErrorResponseLogLast(x, lg, message, statusCode) ==
    LET resp == [Result |-> 0, Success |-> FALSE, Error |-> message]
        x2   == SetContentType(x, ContentTypeJSON)
        x3   == WriteHeader(x2, statusCode)
        x4   == Write(x3, EncodeResponse(resp))
    IN  IF EncodeFailed(x4)
        THEN Logged(HttpError(Logged(x4, lg, "error"), MsgInternalError,
                              StatusInternalServerError), lg, "warn")
        ELSE Logged(x4, lg, "warn")

\* A slip in sendErrorResponse: the error travels in the envelope alone, under
\* status 200.
sendErrorResponseStatusOK(x, lg, message, statusCode) ==
    LET resp == [Result |-> 0, Success |-> FALSE, Error |-> message]
        x1   == Logged(x, lg, "warn")
        x2   == SetContentType(x1, ContentTypeJSON)
        x3   == WriteHeader(x2, StatusOK)
        x4   == Write(x3, EncodeResponse(resp))
    IN  IF EncodeFailed(x4)
        THEN HttpError(Logged(x4, lg, "error"), MsgInternalError, StatusInternalServerError)
        ELSE x4

\* sendErrorResponse(w, message, statusCode, log)
sendErrorResponse(x, lg, message, statusCode) ==
    LET resp == [Result |-> 0, Success |-> FALSE, Error |-> message]
        x1   == Logged(x, lg, "warn")
        x2   == SetContentType(x1, ContentTypeJSON)
        x3   == WriteHeader(x2, statusCode)
        x4   == Write(x3, EncodeResponse(resp))
    IN  IF EncodeFailed(x4)
        THEN HttpError(Logged(x4, lg, "error"), MsgInternalError, StatusInternalServerError)
        ELSE x4

\* The tail of the /calculate handler: the success envelope.
sendSuccessLateHeader(x, lg, result) ==
    LET resp == [Result |-> result, Success |-> TRUE, Error |-> << >>]
        x1   == WriteHeader(x, StatusOK)
        x2   == SetContentType(x1, ContentTypeJSON)
        x3   == Write(x2, EncodeResponse(resp))
    IN  IF EncodeFailed(x3) THEN Logged(x3, lg, "error") ELSE x3

sendSuccess(x, lg, result) ==
    LET resp == [Result |-> result, Success |-> TRUE, Error |-> << >>]
        x1   == SetContentType(x, ContentTypeJSON)
        x2   == WriteHeader(x1, StatusOK)
        x3   == Write(x2, EncodeResponse(resp))
    IN  IF EncodeFailed(x3) THEN Logged(x3, lg, "error") ELSE x3

\* A call of the engine from the handler: its trace joins the handler's.
Called(x, r) == [x EXCEPT !.trace = @ \o r.trace]

addCase(x, lg, req) ==
    LET r == Calculator_Add(lg, req.A, req.B)
    IN  sendSuccess(Called(x, r), lg, r.result)

\* A slip in the subtract case: the operands the other way round.
subtractCaseSwapped(x, lg, req) ==
    LET r == Calculator_Subtract(lg, req.B, req.A)
    IN  sendSuccess(Called(x, r), lg, r.result)

subtractCase(x, lg, req) ==
    LET r == Calculator_Subtract(lg, req.A, req.B)
    IN  sendSuccess(Called(x, r), lg, r.result)

multiplyCase(x, lg, req) ==
    LET r == Calculator_Multiply(lg, req.A, req.B)
    IN  sendSuccess(Called(x, r), lg, r.result)

\* A slip in the divide case: no check of the divisor.
divideCaseUnchecked(x, lg, req) ==
    LET r == Calculator_Divide(lg, req.A, req.B)
    IN  sendSuccess(Called(x, r), lg, r.result)

divideCase(x, lg, req) ==
    IF req.B = 0
    THEN sendErrorResponse(x, lg, MsgDivisionByZero, StatusBadRequest)
    ELSE LET r == Calculator_Divide(lg, req.A, req.B)
         IN  sendSuccess(Called(x, r), lg, r.result)

\* A slip in the default case: the message without the operation received.
defaultCaseNoName(x, lg, req) ==
    sendErrorResponse(x, lg, MsgUnknownOperation, StatusBadRequest)

defaultCase(x, lg, req) ==
    sendErrorResponse(x, lg, MsgUnknownOperation \o req.Operation, StatusBadRequest)

\* The switch on req.Operation ("switch": the handler has reached it).
dispatch(x0, lg, req) ==
    LET x == Traced(x0, "switch", req.Operation) IN
    CASE req.Operation = OpAdd      -> addCase(x, lg, req)
      [] req.Operation = OpSubtract -> subtractCase(x, lg, req)
      [] req.Operation = OpMultiply -> multiplyCase(x, lg, req)
      [] req.Operation = OpDivide   -> divideCase(x, lg, req)
      [] OTHER                      -> defaultCase(x, lg, req)

\* A slip in the handler: the decode error is answered but the handler goes on.
calculateHandlerNoReturn(lg, body, connOk) ==
    LET dec == DecodeRequest(body)
        x   == IF dec.err
               THEN sendErrorResponse(NewExchange(connOk), lg, MsgInvalidRequest,
                                      StatusBadRequest)
               ELSE NewExchange(connOk)
    IN  dispatch(Logged(x, lg, "info"), lg, dec.req)

\* The handler createCalculateHandler returns, run on one request.
calculateHandler(lg, body, connOk) ==
    LET dec == DecodeRequest(body)
    IN  IF dec.err
        THEN sendErrorResponse(NewExchange(connOk), lg, MsgInvalidRequest, StatusBadRequest)
        ELSE dispatch(Logged(NewExchange(connOk), lg, "info"), lg, dec.req)

\* A slip in healthCheckHandler: the status line is left to the first write,
\* and the encode error then decides it.
healthCheckHandlerLateStatus(connOk) ==
    LET x1 == SetContentType(NewExchange(connOk), ContentTypeJSON)
    IN  IF EncodeFailed(x1)
        THEN Write(WriteHeader(x1, StatusInternalServerError), EncodeHealth)
        ELSE Write(x1, EncodeHealth)

\* healthCheckHandler
healthCheckHandler(connOk) ==
    LET x1 == SetContentType(NewExchange(connOk), ContentTypeJSON)
        x2 == WriteHeader(x1, StatusOK)
        x3 == Write(x2, EncodeHealth)
    IN  IF EncodeFailed(x3) THEN WriteHeader(x3, StatusInternalServerError) ELSE x3

----------------------------------------------------------------------------
(* The requests the model sends to the service *)

\* Operation names other than the four supported ones.
OpPower == << "p", "o", "w", "e", "r" >>
OpUpper == << "A", "D", "D" >>

OperationMembers ==
    {JString(op) : op \in {OpAdd, OpSubtract, OpMultiply, OpDivide, OpPower, OpUpper, << >>}}
        \cup {JNumber(1), JAbsent}

\* Numbers, one step beyond the range of int on each side; a string; nothing.
OperandMembers ==
    {JNumber(n) : n \in (MinInt - 1)..(MaxInt + 1)} \cup {JString(<< "x" >>), JAbsent}

RequestBodies ==
    {Garbage} \cup
    {JObject(Members([operation |-> o, a |-> a, b |-> b])) :
        o \in OperationMembers, a \in OperandMembers, b \in OperandMembers}

----------------------------------------------------------------------------
(* The service process: one /calculate exchange and one /health exchange   *)
(* at a time, in any interleaving.  An exchange starts when the request is *)
(* received, ends when the handler returns, and is then forgotten.         *)

NoExchange == [phase |-> "idle"]

\* A POST /calculate arrives.
ReceiveCalculate ==
    /\ calc.phase = "idle"
    /\ \E body \in RequestBodies, connOk \in BOOLEAN :
         calc' = [phase |-> "received", body |-> body, connOk |-> connOk]
    /\ UNCHANGED <<engine, logSystem, health, client, codec, server, slogger, pool, app>>

\* The handler runs to its return.
HandleCalculate ==
    /\ calc.phase = "received"
    /\ calc' = [phase |-> "sent", body |-> calc.body, connOk |-> calc.connOk,
                x |-> calculateHandler(logSystem, calc.body, calc.connOk)]
    /\ UNCHANGED <<engine, logSystem, health, client, codec, server, slogger, pool, app>>

\* The connection of the exchange is done with.
CloseCalculate ==
    /\ calc.phase = "sent"
    /\ calc' = NoExchange
    /\ UNCHANGED <<engine, logSystem, health, client, codec, server, slogger, pool, app>>

\* A GET /health arrives.
ReceiveHealth ==
    /\ health.phase = "idle"
    /\ \E connOk \in BOOLEAN : health' = [phase |-> "received", connOk |-> connOk]
    /\ UNCHANGED <<engine, logSystem, calc, client, codec, server, slogger, pool, app>>

HandleHealth ==
    /\ health.phase = "received"
    /\ health' = [phase |-> "sent", connOk |-> health.connOk,
                  x |-> healthCheckHandler(health.connOk)]
    /\ UNCHANGED <<engine, logSystem, calc, client, codec, server, slogger, pool, app>>

CloseHealth ==
    /\ health.phase = "sent"
    /\ health' = NoExchange
    /\ UNCHANGED <<engine, logSystem, calc, client, codec, server, slogger, pool, app>>

----------------------------------------------------------------------------
(* strings and strconv, as the client uses them *)

UpperLetters == << "A", "B", "C", "D", "E", "F", "G", "H", "I", "J", "K", "L", "M",
                   "N", "O", "P", "Q", "R", "S", "T", "U", "V", "W", "X", "Y", "Z" >>
LowerLetters == << "a", "b", "c", "d", "e", "f", "g", "h", "i", "j", "k", "l", "m",
                   "n", "o", "p", "q", "r", "s", "t", "u", "v", "w", "x", "y", "z" >>
Digits == << "0", "1", "2", "3", "4", "5", "6", "7", "8", "9" >>

IndexOf(seq, c) == CHOOSE i \in 1..Len(seq) : seq[i] = c
IsIn(seq, c)    == \E i \in 1..Len(seq) : seq[i] = c

\* strings.ToLower
ToLower(s) ==
    [i \in 1..Len(s) |->
        IF IsIn(UpperLetters, s[i]) THEN LowerLetters[IndexOf(UpperLetters, s[i])] ELSE s[i]]

\* strings.Fields: the maximal runs of non-space characters, in order.
RECURSIVE FieldsFrom(_, _, _)
FieldsFrom(s, cur, acc) ==
    IF s = << >>
    THEN IF cur = << >> THEN acc ELSE Append(acc, cur)
    ELSE IF Head(s) = " "
         THEN FieldsFrom(Tail(s), << >>, IF cur = << >> THEN acc ELSE Append(acc, cur))
         ELSE FieldsFrom(Tail(s), Append(cur, Head(s)), acc)

Fields(s) == FieldsFrom(s, << >>, << >>)

\* The number a sequence of decimal digits denotes.
RECURSIVE DigitsValue(_)
DigitsValue(ds) ==
    IF ds = << >> THEN 0
    ELSE 10 * DigitsValue(SubSeq(ds, 1, Len(ds) - 1)) + (IndexOf(Digits, ds[Len(ds)]) - 1)

\* strconv.Atoi: an optional sign and at least one digit, nothing else; the
\* value must fit an int.  err: "" (none), "syntax" or "range".
Atoi(s) ==
    LET signed == s # << >> /\ s[1] \in {"+", "-"}
        ds     == IF signed THEN Tail(s) ELSE s
    IN  IF ds = << >> \/ \E i \in 1..Len(ds) : ~IsIn(Digits, ds[i])
        THEN [err |-> "syntax", v |-> 0]
        ELSE LET v == IF s[1] = "-" THEN -DigitsValue(ds) ELSE DigitsValue(ds)
             IN  IF v \in GoInt
                 THEN [err |-> "", v |-> v]
                 ELSE [err |-> "range", v |-> IF v < 0 THEN MinInt ELSE MaxInt]

----------------------------------------------------------------------------
(* cmd/calcclient: the HTTP calls.  A response as the client's http.Client *)
(* returns it: failed is "send" when Get or Do returns an error (refused,  *)
(* timeout), "read" when reading the body does, "" otherwise; the body is  *)
(* the sequence of payloads the server wrote.                              *)

Response(failed, status, body) == [failed |-> failed, status |-> status, body |-> body]

\* What the client receives of an exchange of the service.
Received(x) ==
    IF x.connOk THEN Response("", x.status, x.body) ELSE Response("send", 0, << >>)

\* json.NewDecoder(resp.Body).Decode(&healthResp), healthResp a map[string]bool:
\* the first JSON value of the body, an object whose members are all booleans.
DecodeHealth(body) ==
    IF body = << >> \/ body[1].kind # "object"
    THEN [err |-> TRUE, status |-> FALSE]
    ELSE LET obj == body[1].obj
         IN  IF \E k \in DOMAIN obj : obj[k].t # "bool"
             THEN [err |-> TRUE, status |-> FALSE]
             ELSE [err |-> FALSE,
                   status |-> IF "status" \in DOMAIN obj THEN obj["status"].v ELSE FALSE]

\* A slip in checkServiceHealth: the status code is not looked at.
checkServiceHealthAnyStatus(resp) ==
    IF resp.failed # "" THEN FALSE
    ELSE LET d == DecodeHealth(resp.body)
         IN  IF d.err THEN FALSE ELSE d.status

\* checkServiceHealth
checkServiceHealth(resp) ==
    IF resp.failed # "" THEN FALSE
    ELSE IF resp.status # StatusOK THEN FALSE
    ELSE LET d == DecodeHealth(resp.body)
         IN  IF d.err THEN FALSE ELSE d.status

\* json.Marshal(req), req a CalculationRequest.
EncodeRequest(req) ==
    JObject([operation |-> JString(req.Operation), a |-> JNumber(req.A),
             b |-> JNumber(req.B)])

\* json.Unmarshal(body, &calcResp): the body is exactly one JSON object.
DecodeResponseOtherTag(body) ==
    IF Len(body) # 1 \/ body[1].kind # "object"
    THEN [err |-> TRUE, resp |-> [Result |-> 0, Success |-> FALSE, Error |-> << >>]]
    ELSE LET r == Field(body[1].obj, "result", "number", 0)
             s == Field(body[1].obj, "success", "bool", FALSE)
             e == Field(body[1].obj, "message", "string", << >>)
         IN  [err |-> r.err \/ s.err \/ e.err,
              resp |-> [Result |-> r.v, Success |-> s.v, Error |-> e.v]]

DecodeResponse(body) ==
    IF Len(body) # 1 \/ body[1].kind # "object"
    THEN [err |-> TRUE, resp |-> [Result |-> 0, Success |-> FALSE, Error |-> << >>]]
    ELSE LET r == Field(body[1].obj, "result", "number", 0)
             s == Field(body[1].obj, "success", "bool", FALSE)
             e == Field(body[1].obj, "error", "string", << >>)
         IN  [err |-> r.err \/ s.err \/ e.err,
              resp |-> [Result |-> r.v, Success |-> s.v, Error |-> e.v]]

\* An error value: what fmt.Errorf was given.  kind "" is nil.
Error(kind, code, text) == [kind |-> kind, code |-> code, text |-> text]
Nil == Error("", 0, << >>)

\* A slip in callCalculateAPI: the status code is checked after the envelope.
callCalculateAPIEnvelopeFirst(req, resp) ==
    IF resp.failed = "send" THEN [result |-> 0, err |-> Error("request failed", 0, << >>)]
    ELSE IF resp.failed = "read"
    THEN [result |-> 0, err |-> Error("failed to read response", 0, << >>)]
    ELSE LET d == DecodeResponse(resp.body)
         IN  IF ~d.err /\ ~d.resp.Success
             THEN [result |-> 0, err |-> Error("API error", 0, d.resp.Error)]
             ELSE IF resp.status # StatusOK
             THEN [result |-> 0, err |-> Error("API error (status)", resp.status, resp.body)]
             ELSE IF d.err
             THEN [result |-> 0, err |-> Error("failed to parse response", 0, << >>)]
             ELSE [result |-> d.resp.Result, err |-> Nil]

\* callCalculateAPI, given the response the server makes to its request.
callCalculateAPI(req, resp) ==
    IF resp.failed = "send" THEN [result |-> 0, err |-> Error("request failed", 0, << >>)]
    ELSE IF resp.failed = "read"
    THEN [result |-> 0, err |-> Error("failed to read response", 0, << >>)]
    ELSE IF resp.status # StatusOK
    THEN [result |-> 0, err |-> Error("API error (status)", resp.status, resp.body)]
    ELSE LET d == DecodeResponse(resp.body)
         IN  IF d.err
             THEN [result |-> 0, err |-> Error("failed to parse response", 0, << >>)]
             ELSE IF ~d.resp.Success
             THEN [result |-> 0, err |-> Error("API error", 0, d.resp.Error)]
             ELSE [result |-> d.resp.Result, err |-> Nil]

NoRequest == [Operation |-> << >>, A |-> 0, B |-> 0]

\* A slip in processCommand: the second operand is parsed before the first.
parseCommandSecondFirst(input) ==
    LET parts == Fields(input) IN
    IF Len(parts) < 3
    THEN [err |-> Error("invalid input", 0, << >>), req |-> NoRequest]
    ELSE LET operation == ToLower(parts[1])
             a == Atoi(parts[2])
             b == Atoi(parts[3])
         IN  IF operation \notin {OpAdd, OpSubtract, OpMultiply, OpDivide}
             THEN [err |-> Error("unknown operation", 0, operation), req |-> NoRequest]
             ELSE IF b.err # ""
             THEN [err |-> Error("second number is invalid", 0, << b.err >>), req |-> NoRequest]
             ELSE IF a.err # ""
             THEN [err |-> Error("first number is invalid", 0, << a.err >>), req |-> NoRequest]
             ELSE [err |-> Nil, req |-> [Operation |-> operation, A |-> a.v, B |-> b.v]]

\* A slip in processCommand: the operation is left to the service to check.
parseCommandAnyOperation(input) ==
    LET parts == Fields(input) IN
    IF Len(parts) < 3
    THEN [err |-> Error("invalid input", 0, << >>), req |-> NoRequest]
    ELSE LET operation == ToLower(parts[1])
             a == Atoi(parts[2])
             b == Atoi(parts[3])
         IN  IF a.err # ""
             THEN [err |-> Error("first number is invalid", 0, << a.err >>), req |-> NoRequest]
             ELSE IF b.err # ""
             THEN [err |-> Error("second number is invalid", 0, << b.err >>), req |-> NoRequest]
             ELSE [err |-> Nil, req |-> [Operation |-> operation, A |-> a.v, B |-> b.v]]

\* processCommand up to its call of callCalculateAPI: the local error, or the
\* request it prepares.
parseCommand(input) ==
    LET parts == Fields(input) IN
    IF Len(parts) < 3
    THEN [err |-> Error("invalid input", 0, << >>), req |-> NoRequest]
    ELSE LET operation == ToLower(parts[1])
             a == Atoi(parts[2])
             b == Atoi(parts[3])
         IN  IF operation \notin {OpAdd, OpSubtract, OpMultiply, OpDivide}
             THEN [err |-> Error("unknown operation", 0, operation), req |-> NoRequest]
             ELSE IF a.err # ""
             THEN [err |-> Error("first number is invalid", 0, << a.err >>), req |-> NoRequest]
             ELSE IF b.err # ""
             THEN [err |-> Error("second number is invalid", 0, << b.err >>), req |-> NoRequest]
             ELSE [err |-> Nil, req |-> [Operation |-> operation, A |-> a.v, B |-> b.v]]

\* processCommand, given the response the server makes if a request is sent.
\* posted: whether callCalculateAPI sent its POST /calculate.
processCommand(input, resp) ==
    LET p == parseCommand(input) IN
    IF p.err.kind # ""
    THEN [posted |-> FALSE, req |-> NoRequest, result |-> 0, err |-> p.err]
    ELSE LET r == callCalculateAPI(p.req, resp)
         IN  [posted |-> TRUE, req |-> p.req, result |-> r.result, err |-> r.err]

----------------------------------------------------------------------------
(* The inputs of the client: what the server at ServerURL answers, and the *)
(* lines on standard input.                                                *)

\* strconv.Itoa, to spell the numerals of the input lines.
RECURSIVE NatDigits(_)
NatDigits(n) ==
    IF n < 10 THEN << Digits[n + 1] >> ELSE Append(NatDigits(n \div 10), Digits[(n % 10) + 1])

Itoa(n) == IF n < 0 THEN << "-" >> \o NatDigits(-n) ELSE NatDigits(n)

\* Answers to GET /health of a server that is not the calculator service.
ForeignHealthResponses ==
    {Response("send", 0, << >>)} \cup
    {Response("", st, body) :
        st \in {StatusOK, StatusInternalServerError},
        body \in {<< >>, << Garbage >>,
                  << JObject([status |-> JBool(TRUE)]) >>,
                  << JObject([status |-> JBool(FALSE)]) >>,
                  << JObject([ok |-> JBool(TRUE)]) >>,
                  << JObject([status |-> JString(<< "ok" >>)]) >>}}

\* Answers to POST /calculate of a server that is not the calculator service.
ForeignCalculateResponses ==
    {Response("send", 0, << >>), Response("read", StatusOK, << >>)} \cup
    {Response("", st, body) :
        st \in {StatusOK, StatusBadRequest, StatusInternalServerError},
        body \in {<< >>, << Garbage >>, << PlainText(MsgInternalError) >>,
                  << JObject([result |-> JNumber(3), success |-> JBool(TRUE)]) >>,
                  << JObject([result |-> JNumber(3), success |-> JBool(TRUE),
                              error |-> JString(<< "boom" >>)]) >>,
                  << JObject([result |-> JNumber(3), success |-> JBool(FALSE),
                              error |-> JString(<< "boom" >>)]) >>,
                  << JObject([result |-> JNumber(3)]) >>,
                  << JObject([result |-> JString(<< "3" >>), success |-> JBool(TRUE)]) >>}}

\* What GET /health is answered: by the service, or by whatever else is there.
HealthResponses(peer) ==
    IF peer = "service"
    THEN {Received(healthCheckHandler(ok)) : ok \in BOOLEAN}
    ELSE ForeignHealthResponses

\* What a POST /calculate with this body is answered.
CalculateResponses(peer, lg, body) ==
    IF peer = "service"
    THEN {Received(calculateHandler(lg, body, ok)) : ok \in BOOLEAN}
    ELSE ForeignCalculateResponses

Quit == << "q", "u", "i", "t" >>
Exit == << "e", "x", "i", "t" >>
Q    == << "q" >>

\* First tokens of a line: operation names as typed, and a number.
FirstTokens == {OpAdd, OpUpper, OpDivide, OpPower, Itoa(5)}

\* Further tokens: numerals, a word, and a numeral too large for an int.
ArgTokens == {Itoa(5), Itoa(0), Itoa(-3), << "x" >>, Itoa(MaxInt + 1)}

RECURSIVE ArgLists(_)
ArgLists(n) ==
    IF n = 0 THEN {<< >>}
    ELSE LET shorter == ArgLists(n - 1)
         IN  shorter \cup {Append(l, t) : l \in {m \in shorter : Len(m) = n - 1},
                                          t \in ArgTokens}

\* Tokens joined by single spaces.
RECURSIVE Join(_)
Join(tokens) ==
    IF tokens = << >> THEN << >>
    ELSE IF Len(tokens) = 1 THEN tokens[1]
    ELSE tokens[1] \o << " " >> \o Join(Tail(tokens))

InputLines ==
    {<< >>, Quit, Exit, Q, << " " >> \o Quit, Quit \o << " " >>, << "Q" >>}
        \cup {Join(<< f >> \o args) : f \in FirstTokens, args \in ArgLists(MaxArgs)}
        \cup {<< " ", " " >> \o OpAdd \o << " ", " " >> \o Itoa(5) \o << " " >> \o Itoa(0)
                \o << " " >>}

----------------------------------------------------------------------------
(* cmd/calcclient: main.  pc: "start" before the health check, "prompt" at *)
(* the top of the loop, "scanned" with a line read, "printed" after the    *)
(* command's outcome is printed, "exited".  probes and posts count the GET *)
(* /health and POST /calculate requests sent in the session.               *)

NoCommand == [posted |-> FALSE, req |-> NoRequest, result |-> 0, err |-> Nil]

ClientStart(peer) ==
    [pc |-> "start", peer |-> peer, probes |-> 0, probe |-> Response("", 0, << >>),
     posts |-> 0, commands |-> 0, input |-> << >>, last |-> NoCommand,
     resp |-> Response("", 0, << >>), out |-> "", exit |-> 0]

\* A slip in main: the health check's verdict is printed and not acted on.
ClientCheckHealthNoExit ==
    /\ client.pc = "start"
    /\ \E resp \in HealthResponses(client.peer) :
         client' = [client EXCEPT
            !.probes = @ + 1, !.probe = resp, !.pc = "prompt",
            !.out = IF checkServiceHealth(resp) THEN "Connected"
                    ELSE "Error: Calculator service is not available"]
    /\ UNCHANGED <<engine, logSystem, calc, health, codec, server, slogger, pool, app>>

\* main, lines 42-53: the health check, and the exit when it fails.
ClientCheckHealth ==
    /\ client.pc = "start"
    /\ \E resp \in HealthResponses(client.peer) :
         client' =
            IF checkServiceHealth(resp)
            THEN [client EXCEPT !.probes = @ + 1, !.probe = resp, !.pc = "prompt",
                                !.out = "Connected"]
            ELSE [client EXCEPT !.probes = @ + 1, !.probe = resp, !.pc = "exited",
                                !.out = "Error: Calculator service is not available",
                                !.exit = 1]
    /\ UNCHANGED <<engine, logSystem, calc, health, codec, server, slogger, pool, app>>

\* main, lines 58-64: scanner.Scan() returns a line.
ClientScan ==
    /\ client.pc = "prompt"
    /\ client.commands < MaxCommands
    /\ \E line \in InputLines :
         client' = [client EXCEPT !.pc = "scanned", !.input = line,
                                  !.commands = @ + 1]
    /\ UNCHANGED <<engine, logSystem, calc, health, codec, server, slogger, pool, app>>

\* main, lines 59-61 and 80-83: scanner.Scan() returns false, at the end of the
\* input or on a read error.
ClientEndOfInput ==
    /\ client.pc = "prompt"
    /\ \E scanErr \in BOOLEAN :
         client' = [client EXCEPT !.pc = "exited",
                                  !.out = IF scanErr THEN "Reading input" ELSE @,
                                  !.exit = IF scanErr THEN 1 ELSE 0]
    /\ UNCHANGED <<engine, logSystem, calc, health, codec, server, slogger, pool, app>>

\* main, lines 66-69: the line is quit, exit or q.
ClientQuit ==
    /\ client.pc = "scanned"
    /\ client.input \in {Quit, Exit, Q}
    /\ client' = [client EXCEPT !.pc = "exited", !.out = "Goodbye!", !.exit = 0]
    /\ UNCHANGED <<engine, logSystem, calc, health, codec, server, slogger, pool, app>>

\* A slip in the client: a call that failed is made once more.
ClientExecuteRetry ==
    /\ client.pc = "scanned"
    /\ client.input \notin {Quit, Exit, Q}
    /\ LET p == parseCommand(client.input) IN
       \E resp \in IF p.err.kind = ""
                   THEN CalculateResponses(client.peer, logSystem, EncodeRequest(p.req))
                   ELSE {Response("", 0, << >>)} :
         LET r == processCommand(client.input, resp) IN
         client' = [client EXCEPT
            !.pc = "printed", !.last = r, !.resp = resp,
            !.posts = IF r.posted THEN (IF r.err.kind # "" THEN @ + 2 ELSE @ + 1) ELSE @,
            !.out = IF r.err.kind # "" THEN "Error: " ELSE "Result: "]
    /\ UNCHANGED <<engine, logSystem, calc, health, codec, server, slogger, pool, app>>

\* main, lines 71-77: processCommand on the line, and its outcome printed.
ClientExecute ==
    /\ client.pc = "scanned"
    /\ client.input \notin {Quit, Exit, Q}
    /\ LET p == parseCommand(client.input) IN
       \E resp \in IF p.err.kind = ""
                   THEN CalculateResponses(client.peer, logSystem, EncodeRequest(p.req))
                   ELSE {Response("", 0, << >>)} :
         LET r == processCommand(client.input, resp) IN
         client' = [client EXCEPT
            !.pc = "printed", !.last = r, !.resp = resp,
            !.posts = IF r.posted THEN @ + 1 ELSE @,
            !.out = IF r.err.kind # "" THEN "Error: " ELSE "Result: "]
    /\ UNCHANGED <<engine, logSystem, calc, health, codec, server, slogger, pool, app>>

\* A slip in main: a command that failed ends the client.
ClientContinueFatal ==
    /\ client.pc = "printed"
    /\ client' = IF client.last.err.kind # ""
                 THEN [client EXCEPT !.pc = "exited", !.exit = 1]
                 ELSE [client EXCEPT !.pc = "prompt", !.input = << >>, !.last = NoCommand,
                                     !.resp = Response("", 0, << >>), !.out = ""]
    /\ UNCHANGED <<engine, logSystem, calc, health, codec, server, slogger, pool, app>>

\* main, line 57: the loop goes round.
ClientContinue ==
    /\ client.pc = "printed"
    /\ client' = [client EXCEPT !.pc = "prompt", !.input = << >>, !.last = NoCommand,
                                !.resp = Response("", 0, << >>), !.out = ""]
    /\ UNCHANGED <<engine, logSystem, calc, health, codec, server, slogger, pool, app>>

----------------------------------------------------------------------------
(* A CalculationResponse from the service's struct to the client's: encoded *)
(* by the service's json.Encoder, decoded by the client's json.Unmarshal.   *)

NameLetters == {"p", "A", "<", "7"}

\* Operation names a request can carry: any text.
OperationNames == UNION {[1..n -> NameLetters] : n \in 0..MaxNameLen}

\* The messages of the service's error envelopes.
ErrorMessages ==
    {MsgInvalidRequest, MsgDivisionByZero}
        \cup {MsgUnknownOperation \o name : name \in OperationNames}

\* The CalculationResponse values the handlers build.
ServiceResponses ==
    {[Result |-> r, Success |-> TRUE, Error |-> << >>] : r \in GoInt}
        \cup {[Result |-> 0, Success |-> FALSE, Error |-> m] : m \in ErrorMessages}

NotDecoded == [err |-> FALSE, resp |-> [Result |-> 0, Success |-> FALSE, Error |-> << >>]]

CodecStart(resp) ==
    [phase |-> "built", resp |-> resp, wire |-> << >>, decoded |-> NotDecoded]

\* The service: json.NewEncoder(w).Encode(resp)
ServiceEncode ==
    /\ codec.phase = "built"
    /\ codec' = [codec EXCEPT !.phase = "encoded", !.wire = << EncodeResponse(codec.resp) >>]
    /\ UNCHANGED <<engine, logSystem, calc, health, client, server, slogger, pool, app>>

\* The client: json.Unmarshal(body, &calcResp)
ClientDecode ==
    /\ codec.phase = "encoded"
    /\ codec' = [codec EXCEPT !.phase = "decoded", !.decoded = DecodeResponse(codec.wire)]
    /\ UNCHANGED <<engine, logSystem, calc, health, client, server, slogger, pool, app>>

----------------------------------------------------------------------------
(* cmd/calcservice: the process.  main starts the listener in a goroutine   *)
(* and blocks on the channel `stop`; net/http runs the handler of each      *)
(* request in a goroutine of its own.  The process ends when main returns   *)
(* or when os.Exit is called, and every goroutine ends with it.             *)

Running == -1

\* The errors ListenAndServe returns in this program.  http.ErrServerClosed is
\* returned only after Shutdown or Close, which the program never calls.
ErrServerClosed == "http: Server closed"
ListenErrors == {"bind: address already in use", "accept: too many open files"}

RequestIds == 1..MaxRequests

\* The process when main reaches <-stop: the listener goroutine is started,
\* signal.Notify has registered the channel (capacity 1).
ServerStart ==
    [main      |-> "blocked",
     listener  |-> "starting",
     stop      |-> 0,
     signalled |-> FALSE,
     atSignal  |-> {},
     reqs      |-> [i \in RequestIds |-> "none"],
     exit      |-> Running,
     log       |-> << >>]

InFlight(srv) == {i \in RequestIds : srv.reqs[i] = "inflight"}

\* The process ends: a request whose handler has not answered never will.
Terminated(srv, code) ==
    [srv EXCEPT !.exit = code,
                !.reqs = [i \in RequestIds |->
                            IF srv.reqs[i] = "inflight" THEN "dropped" ELSE srv.reqs[i]],
                !.log = Append(@, Event("exit", code))]

\* log.Fatalf: the entry, then os.Exit(1), with zap (sugar.Fatalf) and with
\* slog (SlogAdapter.Fatalf, slogger's Logger.Fatal).
Fatalf(srv, lg) == Terminated([srv EXCEPT !.log = @ \o Log(lg, "fatal")], 1)

\* ListenAndServe has bound the port and accepts connections.
ListenerBound ==
    /\ server.exit = Running
    /\ server.listener = "starting"
    /\ server' = [server EXCEPT !.listener = "serving"]
    /\ UNCHANGED <<engine, logSystem, calc, health, client, codec, slogger, pool, app>>

\* A slip in the listener goroutine: the failure is logged as an error and
\* the goroutine returns.
ListenerFailsLogged ==
    /\ server.exit = Running
    /\ server.listener \in {"starting", "serving"}
    /\ \E err \in ListenErrors :
         /\ err # ErrServerClosed
         /\ server' = [server EXCEPT !.listener = "failed",
                                      !.log = @ \o Log(logSystem, "error")]
    /\ UNCHANGED <<engine, logSystem, calc, health, client, codec, slogger, pool, app>>

\* ListenAndServe returns an error (at once: the port cannot be bound; later:
\* accepting fails) and the goroutine calls log.Fatalf.
ListenerFails ==
    /\ server.exit = Running
    /\ server.listener \in {"starting", "serving"}
    /\ \E err \in ListenErrors :
         /\ err # ErrServerClosed
         /\ server' = Fatalf([server EXCEPT !.listener = "failed"], logSystem)
    /\ UNCHANGED <<engine, logSystem, calc, health, client, codec, slogger, pool, app>>

\* A request is received: its handler starts.
RequestArrives ==
    /\ server.exit = Running
    /\ server.listener = "serving"
    /\ \E i \in RequestIds :
         /\ server.reqs[i] = "none"
         /\ \A j \in RequestIds : j < i => server.reqs[j] # "none"
         /\ server' = [server EXCEPT !.reqs[i] = "inflight"]
    /\ UNCHANGED <<engine, logSystem, calc, health, client, codec, slogger, pool, app>>

\* A handler has written its response and returns.
RequestAnswered ==
    /\ server.exit = Running
    /\ \E i \in InFlight(server) : server' = [server EXCEPT !.reqs[i] = "answered"]
    /\ UNCHANGED <<engine, logSystem, calc, health, client, codec, slogger, pool, app>>

\* SIGINT or SIGTERM is delivered: the runtime puts it on `stop` (a signal
\* that finds the channel full is dropped).
SignalArrives ==
    /\ server.exit = Running
    /\ ~server.signalled
    /\ server' = [server EXCEPT !.stop = 1, !.signalled = TRUE,
                                 !.atSignal = InFlight(server)]
    /\ UNCHANGED <<engine, logSystem, calc, health, client, codec, slogger, pool, app>>

\* main, from <-stop to its end: two log entries, and main returns.
MainShutsDown ==
    /\ server.exit = Running
    /\ server.main = "blocked"
    /\ server.stop = 1
    /\ server' = Terminated(
                    [server EXCEPT !.main = "returned", !.stop = 0,
                                   !.log = @ \o Log(logSystem, "info")
                                             \o Log(logSystem, "info")], 0)
    /\ UNCHANGED <<engine, logSystem, calc, health, client, codec, slogger, pool, app>>

----------------------------------------------------------------------------
(* pkg/slogger: Logger.  A call is recorded as the trace of what it does:  *)
(* the entries handed to slog and the calls of OsExit, in program order.   *)
(* OsExit is os.Exit, or the function a test has put in its place.         *)

ExitFunctions == {"os.Exit", "replaced"}

LogMessages == {"fatal error", "error message", "info message"}

Attrs == {<< "key", "value" >>, << "count", "42" >>}

\* args ...any: key/value pairs.
AttrLists == UNION {[1..n -> Attrs] : n \in 0..MaxAttrs}

\* slog.Log(context.Background(), level, msg, args...)
SlogLog(level, msg, args) ==
    Event("emit", [level |-> level, msg |-> msg, args |-> args])

\* A slip in Fatal: the exit before the entry.
Logger_FatalExitFirst(msg, args) ==
    << Event("exit", 1), SlogLog("error", msg, args) >>

Logger_Fatal(msg, args) == << SlogLog("error", msg, args), Event("exit", 1) >>

Logger_Error(msg, args) == << SlogLog("error", msg, args) >>

Logger_Info(msg, args) == << SlogLog("info", msg, args) >>

\* A Logger about to be called with msg and args.
SloggerStart(osExit, msg, args) ==
    [pc |-> "idle", OsExit |-> osExit, method |-> "", msg |-> msg, args |-> args,
     trace |-> << >>]

\* The call made: it returns, unless it has called os.Exit itself.
SloggerCall(method, trace) ==
    /\ slogger.pc = "idle"
    /\ slogger' = [slogger EXCEPT
          !.method = method,
          !.trace = trace,
          !.pc = IF slogger.OsExit = "os.Exit"
                    /\ \E i \in 1..Len(trace) : trace[i].ev = "exit"
                 THEN "exited" ELSE "returned"]
    /\ UNCHANGED <<engine, logSystem, calc, health, client, codec, server, pool, app>>

SloggerFatal == SloggerCall("Fatal", Logger_Fatal(slogger.msg, slogger.args))
SloggerError == SloggerCall("Error", Logger_Error(slogger.msg, slogger.args))
SloggerInfo  == SloggerCall("Info", Logger_Info(slogger.msg, slogger.args))

----------------------------------------------------------------------------
(* cmd/calcservice: handlers of /calculate running at the same time.  Each *)
(* run of the handler is a goroutine with the request, the writer and the  *)
(* variable `result` of its own; the runs share calc and log, which they   *)
(* only read.  A run is taken in two steps, up to the assignment of result *)
(* and from there to its return, so that runs interleave between them.     *)

Handlers == 1..MaxConcurrent

ConcurrentBodies ==
    {Garbage} \cup
    {JObject([operation |-> JString(o), a |-> JNumber(a), b |-> JNumber(b)]) :
        o \in {OpAdd, OpDivide, OpPower}, a \in {MaxInt}, b \in {0, 2}}

HandlerIdle ==
    [phase |-> "idle", body |-> Garbage, connOk |-> TRUE, x |-> NewExchange(TRUE)]

PoolStart ==
    [h |-> [i \in Handlers |-> HandlerIdle], result |-> [i \in Handlers |-> 0]]

\* A slip in createCalculateHandler: result declared outside the returned
\* function, and so one variable for all of its runs.
ResultSlotShared(i) == 1

\* var result int, declared in the returned function: one for each run.
ResultSlot(i) == i

\* The call of the engine in a case of the switch that assigns result.
engineCase(lg, req) ==
    CASE req.Operation = OpAdd      -> Calculator_Add(lg, req.A, req.B)
      [] req.Operation = OpSubtract -> Calculator_Subtract(lg, req.A, req.B)
      [] req.Operation = OpMultiply -> Calculator_Multiply(lg, req.A, req.B)
      [] req.Operation = OpDivide   -> Calculator_Divide(lg, req.A, req.B)

\* The handler up to the end of its switch: done when it has answered with an
\* error and returned, and otherwise the value assigned to result.
calculateUpToResult(lg, body, connOk) ==
    LET dec == DecodeRequest(body)
        x0  == NewExchange(connOk)
    IN  IF dec.err
        THEN [done |-> TRUE, result |-> 0,
              x |-> sendErrorResponse(x0, lg, MsgInvalidRequest, StatusBadRequest)]
        ELSE LET req == dec.req
                 x   == Traced(Logged(x0, lg, "info"), "switch", req.Operation)
             IN  IF req.Operation \notin {OpAdd, OpSubtract, OpMultiply, OpDivide}
                 THEN [done |-> TRUE, result |-> 0, x |-> defaultCase(x, lg, req)]
                 ELSE IF req.Operation = OpDivide /\ req.B = 0
                 THEN [done |-> TRUE, result |-> 0,
                       x |-> sendErrorResponse(x, lg, MsgDivisionByZero, StatusBadRequest)]
                 ELSE LET r == engineCase(lg, req)
                      IN  [done |-> FALSE, result |-> r.result, x |-> Called(x, r)]

\* A POST /calculate arrives while others may be in progress.
ConcurrentReceive ==
    /\ \E i \in Handlers, body \in ConcurrentBodies, connOk \in BOOLEAN :
         /\ pool.h[i].phase = "idle"
         /\ pool' = [pool EXCEPT !.h[i] = [phase |-> "received", body |-> body,
                                            connOk |-> connOk, x |-> NewExchange(connOk)]]
    /\ UNCHANGED <<engine, logSystem, calc, health, client, codec, server, slogger, app>>

\* A handler runs to the end of its switch.
ConcurrentCompute ==
    /\ \E i \in Handlers :
         /\ pool.h[i].phase = "received"
         /\ LET c == calculateUpToResult(logSystem, pool.h[i].body, pool.h[i].connOk)
            IN  pool' = IF c.done
                        THEN [pool EXCEPT !.h[i].phase = "sent", !.h[i].x = c.x]
                        ELSE [pool EXCEPT !.h[i].phase = "computed", !.h[i].x = c.x,
                                          !.result[ResultSlot(i)] = c.result]
    /\ UNCHANGED <<engine, logSystem, calc, health, client, codec, server, slogger, app>>

\* A handler sends the success envelope with its result and returns.
ConcurrentRespond ==
    /\ \E i \in Handlers :
         /\ pool.h[i].phase = "computed"
         /\ pool' = [pool EXCEPT
               !.h[i].phase = "sent",
               !.h[i].x = sendSuccess(pool.h[i].x, logSystem, pool.result[ResultSlot(i)]),
               !.result[ResultSlot(i)] = 0]
    /\ UNCHANGED <<engine, logSystem, calc, health, client, codec, server, slogger, app>>

\* The connection of an exchange is done with.
ConcurrentClose ==
    /\ \E i \in Handlers :
         /\ pool.h[i].phase = "sent"
         /\ pool' = [pool EXCEPT !.h[i] = HandlerIdle]
    /\ UNCHANGED <<engine, logSystem, calc, health, client, codec, server, slogger, app>>

----------------------------------------------------------------------------
(* cmd/app: the interactive application, which uses the engine directly *)

\* A slip in processCommand: the four operations of the engine dispatched.
app_processCommandAllOperations(lg, input) ==
    LET parts == Fields(input) IN
    IF Len(parts) < 3
    THEN [result |-> 0, err |-> Error("invalid input", 0, << >>), trace |-> << >>]
    ELSE LET command == ToLower(parts[1])
             a == Atoi(parts[2])
             b == Atoi(parts[3])
         IN  IF a.err # ""
             THEN [result |-> 0, err |-> Error("first number is invalid", 0, << a.err >>),
                   trace |-> << >>]
             ELSE IF b.err # ""
             THEN [result |-> 0, err |-> Error("second number is invalid", 0, << b.err >>),
                   trace |-> << >>]
             ELSE IF command \in {OpAdd, OpSubtract, OpMultiply, OpDivide}
             THEN LET r == engineCase(lg, [Operation |-> command, A |-> a.v, B |-> b.v])
                  IN  [result |-> r.result, err |-> Nil,
                       trace |-> Log(lg, "debug") \o r.trace]
             ELSE [result |-> 0, err |-> Error("unknown operation", 0, command),
                   trace |-> Log(lg, "debug")]

\* processCommand(input, calc, log) of cmd/app: the result, the error, and
\* the trace of its log and engine calls.
app_processCommand(lg, input) ==
    LET parts == Fields(input) IN
    IF Len(parts) < 3
    THEN [result |-> 0, err |-> Error("invalid input", 0, << >>), trace |-> << >>]
    ELSE LET command == ToLower(parts[1])
             a == Atoi(parts[2])
             b == Atoi(parts[3])
         IN  IF a.err # ""
             THEN [result |-> 0, err |-> Error("first number is invalid", 0, << a.err >>),
                   trace |-> << >>]
             ELSE IF b.err # ""
             THEN [result |-> 0, err |-> Error("second number is invalid", 0, << b.err >>),
                   trace |-> << >>]
             ELSE IF command = OpAdd
             THEN LET r == Calculator_Add(lg, a.v, b.v)
                  IN  [result |-> r.result, err |-> Nil,
                       trace |-> Log(lg, "debug") \o r.trace]
             ELSE IF command = OpSubtract
             THEN LET r == Calculator_Subtract(lg, a.v, b.v)
                  IN  [result |-> r.result, err |-> Nil,
                       trace |-> Log(lg, "debug") \o r.trace]
             ELSE [result |-> 0, err |-> Error("unknown operation", 0, command),
                   trace |-> Log(lg, "debug")]

\* The lines typed into the application.
AppFirstTokens == {OpAdd, OpUpper, OpSubtract, OpMultiply, OpDivide, OpPower}

AppInputLines ==
    {Join(<< f >> \o args) : f \in AppFirstTokens, args \in ArgLists(MaxArgs)}

AppStart(input) ==
    [pc |-> "scanned", input |-> input,
     last |-> [result |-> 0, err |-> Nil, trace |-> << >>], out |-> ""]

\* main: processCommand on the line (the logger is zap's development
\* logger), and its outcome printed.
AppExecute ==
    /\ app.pc = "scanned"
    /\ LET r == app_processCommand("zap", app.input)
       IN  app' = [app EXCEPT !.pc = "printed", !.last = r,
                              !.out = IF r.err.kind # "" THEN "Error: " ELSE "Result: "]
    /\ UNCHANGED <<engine, logSystem, calc, health, client, codec, server, slogger, pool>>

----------------------------------------------------------------------------
(* Specifications *)

\* The parts a specification leaves out stay as they are here.
CodecIdle   == CodecStart([Result |-> 0, Success |-> FALSE, Error |-> << >>])
ServerIdle  == ServerStart
SloggerIdle == SloggerStart("os.Exit", "info message", << >>)
AppIdle     == AppStart(<< >>)

\* The arithmetic engine used directly, with any logger and any operands.
InitEngine ==
    /\ engine \in {EngineIdle(lg, a, b) :
                     lg \in LogSystems \cup {NoOpLogger}, a \in GoInt, b \in GoInt}
    /\ logSystem = "zap"
    /\ calc = 0
    /\ health = 0
    /\ client = ClientStart("service")
    /\ codec = CodecIdle
    /\ server = ServerIdle
    /\ slogger = SloggerIdle
    /\ pool = PoolStart
    /\ app = AppIdle

NextEngine == CallAdd \/ CallSubtract \/ CallMultiply \/ CallDivide

SpecEngine == InitEngine /\ [][NextEngine]_vars

\* The running service, started with either logging backend.
InitService ==
    /\ engine = EngineIdle(NoOpLogger, 0, 0)
    /\ logSystem \in LogSystems
    /\ calc = NoExchange
    /\ health = NoExchange
    /\ client = ClientStart("service")
    /\ codec = CodecIdle
    /\ server = ServerIdle
    /\ slogger = SloggerIdle
    /\ pool = PoolStart
    /\ app = AppIdle

NextService ==
    \/ ReceiveCalculate \/ HandleCalculate \/ CloseCalculate
    \/ ReceiveHealth \/ HandleHealth \/ CloseHealth

SpecService == InitService /\ [][NextService]_vars

\* A client session, against the calculator service or against something else.
InitClient ==
    /\ engine = EngineIdle(NoOpLogger, 0, 0)
    /\ logSystem = "zap"
    /\ calc = NoExchange
    /\ health = NoExchange
    /\ client \in {ClientStart(peer) : peer \in {"service", "other"}}
    /\ codec = CodecIdle
    /\ server = ServerIdle
    /\ slogger = SloggerIdle
    /\ pool = PoolStart
    /\ app = AppIdle

NextClient ==
    \/ ClientCheckHealth \/ ClientScan \/ ClientEndOfInput
    \/ ClientQuit \/ ClientExecute \/ ClientContinue

SpecClient == InitClient /\ [][NextClient]_vars

\* Every CalculationResponse of the service, encoded there and decoded by the
\* client.
InitCodec ==
    /\ engine = EngineIdle(NoOpLogger, 0, 0)
    /\ logSystem = "zap"
    /\ calc = NoExchange
    /\ health = NoExchange
    /\ client = ClientStart("service")
    /\ codec \in {CodecStart(resp) : resp \in ServiceResponses}
    /\ server = ServerIdle
    /\ slogger = SloggerIdle
    /\ pool = PoolStart
    /\ app = AppIdle

NextCodec == ServiceEncode \/ ClientDecode

SpecCodec == InitCodec /\ [][NextCodec]_vars

\* The service process from start to exit, with either logging backend.
InitServer ==
    /\ engine = EngineIdle(NoOpLogger, 0, 0)
    /\ logSystem \in LogSystems
    /\ calc = NoExchange
    /\ health = NoExchange
    /\ client = ClientStart("service")
    /\ codec = CodecIdle
    /\ server = ServerStart
    /\ slogger = SloggerIdle
    /\ pool = PoolStart
    /\ app = AppIdle

NextServer ==
    \/ ListenerBound \/ ListenerFails
    \/ RequestArrives \/ RequestAnswered
    \/ SignalArrives \/ MainShutsDown

SpecServer == InitServer /\ [][NextServer]_vars

\* One call of slogger's Logger, with any message and attributes.
InitSlogger ==
    /\ engine = EngineIdle(NoOpLogger, 0, 0)
    /\ logSystem = "slog"
    /\ calc = NoExchange
    /\ health = NoExchange
    /\ client = ClientStart("service")
    /\ codec = CodecIdle
    /\ server = ServerIdle
    /\ slogger \in {SloggerStart(f, msg, args) :
                      f \in ExitFunctions, msg \in LogMessages, args \in AttrLists}
    /\ pool = PoolStart
    /\ app = AppIdle

NextSlogger == SloggerFatal \/ SloggerError \/ SloggerInfo

SpecSlogger == InitSlogger /\ [][NextSlogger]_vars

\* The service with several /calculate requests in progress at once.
InitPool ==
    /\ engine = EngineIdle(NoOpLogger, 0, 0)
    /\ logSystem \in LogSystems
    /\ calc = NoExchange
    /\ health = NoExchange
    /\ client = ClientStart("service")
    /\ codec = CodecIdle
    /\ server = ServerIdle
    /\ slogger = SloggerIdle
    /\ pool = PoolStart
    /\ app = AppIdle

NextPool ==
    ConcurrentReceive \/ ConcurrentCompute \/ ConcurrentRespond \/ ConcurrentClose

SpecPool == InitPool /\ [][NextPool]_vars

\* One command of the interactive application.
InitApp ==
    /\ engine = EngineIdle(NoOpLogger, 0, 0)
    /\ logSystem = "zap"
    /\ calc = NoExchange
    /\ health = NoExchange
    /\ client = ClientStart("service")
    /\ codec = CodecIdle
    /\ server = ServerIdle
    /\ slogger = SloggerIdle
    /\ pool = PoolStart
    /\ app \in {AppStart(input) : input \in AppInputLines}

NextApp == AppExecute

SpecApp == InitApp /\ [][NextApp]_vars

----------------------------------------------------------------------------
(* What the checks below read from a finished exchange *)

Range(seq) == {seq[i] : i \in 1..Len(seq)}

\* The engine methods a handler called, in order.
EngineCalls(x) == SelectSeq(x.trace, LAMBDA e : e.ev = "call")

\* Whether the handler reached its switch.
Dispatched(x) == \E i \in 1..Len(x.trace) : x.trace[i].ev = "switch"

\* The CalculationResponse envelopes the handler encoded, written or not.
Envelopes(x) ==
    {x.trace[i].what.obj : i \in {j \in 1..Len(x.trace) :
        /\ x.trace[j].ev \in {"write", "write_failed"}
        /\ x.trace[j].what.kind = "object"}}

\* The response the caller receives is one JSON object: that object.
Answered(x) == x.connOk /\ Len(x.body) = 1 /\ x.body[1].kind = "object"

IsErrorEnvelope(obj, message) ==
    /\ DOMAIN obj = {"result", "success", "error"}
    /\ obj.success = JBool(FALSE)
    /\ obj.error = JString(message)

IsSuccessEnvelope(obj, result) ==
    /\ DOMAIN obj = {"result", "success"}
    /\ obj.success = JBool(TRUE)
    /\ obj.result = JNumber(result)

SupportedOperations == {OpAdd, OpSubtract, OpMultiply, OpDivide}

\* The request of the finished /calculate exchange, as decoded.
Decoded == DecodeRequest(calc.body)

----------------------------------------------------------------------------
(* The claims *)

\* C1: a POST /calculate that decodes to operation "divide" with b = 0 (any a)
\* is answered 400 with success=false and error "Division by zero", and the
\* handler never calls the engine's Divide.
C1_DivideByZeroRejected ==
    (calc.phase = "sent" /\ ~Decoded.err
        /\ Decoded.req.Operation = OpDivide /\ Decoded.req.B = 0)
    => /\ calc.x.status = 400
       /\ calc.x.connOk =>
            /\ Answered(calc.x)
            /\ IsErrorEnvelope(calc.x.body[1].obj, << "Division by zero" >>)
       /\ \A i \in 1..Len(calc.x.trace) :
            ~(calc.x.trace[i].ev = "call" /\ calc.x.trace[i].what = "Divide")

C1_Witness ==
    /\ calc.phase = "sent" /\ ~Decoded.err /\ calc.x.connOk
    /\ Decoded.req.Operation = OpDivide /\ Decoded.req.B = 0 /\ Decoded.req.A = 5
    /\ "b" \in DOMAIN calc.body.obj
    /\ calc.x.status = 400

\* C2: a POST /calculate whose decoded operation is not exactly one of add,
\* subtract, multiply, divide (the empty string and "ADD" included) is answered
\* 400 with success=false and error "Unknown operation: " followed by the
\* operation received, and the handler calls no engine operation.
C2_UnknownOperationRejected ==
    (calc.phase = "sent" /\ ~Decoded.err
        /\ Decoded.req.Operation \notin SupportedOperations)
    => /\ calc.x.status = 400
       /\ calc.x.connOk =>
            /\ Answered(calc.x)
            /\ IsErrorEnvelope(calc.x.body[1].obj,
                               << "Unknown operation: " >> \o Decoded.req.Operation)
       /\ EngineCalls(calc.x) = << >>

C2_Witness ==
    /\ calc.phase = "sent" /\ ~Decoded.err /\ calc.x.connOk
    /\ Decoded.req.Operation = << "A", "D", "D" >>
    /\ calc.x.status = 400
    /\ calc.x.body[1].obj.error = JString(<< "Unknown operation: ", "A", "D", "D" >>)

\* C3: a POST /calculate that decodes to a supported operation, and is not a
\* divide with b = 0, is answered 200 with success=true, no error member, and
\* the result the engine's operation of that name returns for (a, b).
C3_SupportedOperationAnswered ==
    (calc.phase = "sent" /\ ~Decoded.err
        /\ Decoded.req.Operation \in SupportedOperations
        /\ ~(Decoded.req.Operation = OpDivide /\ Decoded.req.B = 0))
    => LET a == Decoded.req.A
           b == Decoded.req.B
           expected == CASE Decoded.req.Operation = OpAdd      -> Add(a, b)
                         [] Decoded.req.Operation = OpSubtract -> Subtract(a, b)
                         [] Decoded.req.Operation = OpMultiply -> Multiply(a, b)
                         [] Decoded.req.Operation = OpDivide   -> Divide(a, b)
       IN  /\ calc.x.status = 200
           /\ calc.x.connOk =>
                /\ Answered(calc.x)
                /\ IsSuccessEnvelope(calc.x.body[1].obj, expected)

C3_Witness ==
    /\ calc.phase = "sent" /\ ~Decoded.err /\ calc.x.connOk
    /\ Decoded.req.Operation = OpSubtract /\ Decoded.req.A = 5 /\ Decoded.req.B = 3
    /\ calc.x.status = 200
    /\ calc.x.body[1].obj.result = JNumber(2)

\* C4: a POST /calculate whose body fails to decode into a CalculationRequest
\* is answered 400 with success=false and error "Invalid request format", and
\* the handler neither reaches its switch nor calls the engine.
C4_DecodeFailureRejected ==
    (calc.phase = "sent" /\ Decoded.err)
    => /\ calc.x.status = 400
       /\ calc.x.connOk =>
            /\ Answered(calc.x)
            /\ IsErrorEnvelope(calc.x.body[1].obj, << "Invalid request format" >>)
       /\ ~Dispatched(calc.x)
       /\ EngineCalls(calc.x) = << >>

C4_Witness ==
    /\ calc.phase = "sent" /\ Decoded.err /\ calc.x.connOk
    /\ calc.body.kind = "object"
    /\ "operation" \in DOMAIN calc.body.obj
    /\ calc.body.obj.operation = JString(OpAdd)
    /\ calc.x.status = 400

\* C5: every CalculationResponse the /calculate handler produces is either
\* success=true without an error, or success=false with a non-empty error and
\* result 0.
C5_EnvelopeShape ==
    calc.phase = "sent" =>
        \A obj \in Envelopes(calc.x) :
            \/ /\ obj.success = JBool(TRUE)
               /\ "error" \notin DOMAIN obj
            \/ /\ obj.success = JBool(FALSE)
               /\ "error" \in DOMAIN obj
               /\ obj.error.t = "string" /\ obj.error.v # << >>
               /\ obj.result = JNumber(0)

C5_Witness ==
    /\ calc.phase = "sent" /\ calc.x.connOk
    /\ \E obj \in Envelopes(calc.x) : obj.success = JBool(FALSE)
    /\ Decoded.req.Operation = << >> /\ ~Decoded.err

\* C6: whatever the /calculate exchange is doing or has done, a GET /health is
\* answered 200 with the body {"status": true}.
C6_HealthAlwaysOK ==
    health.phase = "sent"
    => /\ health.x.status = 200
       /\ health.x.connOk => health.x.body = << JObject([status |-> JBool(TRUE)]) >>

C6_Witness ==
    /\ health.phase = "sent" /\ health.x.connOk
    /\ calc.phase = "received"
    /\ health.x.status = 200

\* C7: in a client session no POST /calculate is sent unless a GET /health
\* was sent before and succeeded; a probe that fails (transport error, status
\* other than 200, undecodable payload, status member false or missing) makes
\* the client report unavailability and exit without any calculation call.
ProbeFailed(resp) ==
    \/ resp.failed # ""
    \/ resp.status # 200
    \/ resp.body = << >>
    \/ resp.body[1].kind # "object"
    \/ \E k \in DOMAIN resp.body[1].obj : resp.body[1].obj[k].t # "bool"
    \/ "status" \notin DOMAIN resp.body[1].obj
    \/ resp.body[1].obj["status"] = JBool(FALSE)

C7_HealthProbeGatesCalls ==
    /\ client.posts > 0 => (client.probes = 1 /\ ~ProbeFailed(client.probe))
    /\ client.pc \notin {"start", "exited"} => (client.probes = 1 /\ ~ProbeFailed(client.probe))
    /\ (client.probes > 0 /\ ProbeFailed(client.probe))
       => /\ client.pc = "exited"
          /\ client.exit = 1
          /\ client.out = "Error: Calculator service is not available"
          /\ client.posts = 0

C7_Witness ==
    /\ client.posts = 2
    /\ client.probes = 1
    /\ client.peer = "other"

\* C8 as stated: callCalculateAPI maps a transport failure to a local error, a
\* status other than 200 to an error with the status code and the raw body, a
\* 200 response decoded with success=false to an error with the server's
\* message, and everything else to the decoded result without error; the
\* result is 0 with every error.
C8_Original ==
    (client.pc = "printed" /\ client.last.posted)
    => LET resp == client.resp
           got  == client.last
           d    == DecodeResponse(resp.body)
       IN  /\ got.err.kind # "" => got.result = 0
           /\ IF resp.failed # "" THEN got.err.kind # ""
              ELSE IF resp.status # 200
              THEN /\ got.err.kind = "API error (status)"
                   /\ got.err.code = resp.status
                   /\ got.err.text = resp.body
              ELSE IF ~d.err /\ ~d.resp.Success
              THEN got.err.kind = "API error" /\ got.err.text = d.resp.Error
              ELSE got.err.kind = "" /\ got.result = d.resp.Result

\* C8, amended: as above, and a 200 response whose body does not decode into a
\* CalculationResponse yields a local parse error; only a 200 response decoded
\* with success=true returns the decoded result without error.
C8_ResponseMapping ==
    (client.pc = "printed" /\ client.last.posted)
    => LET resp == client.resp
           got  == client.last
           d    == DecodeResponse(resp.body)
       IN  /\ got.err.kind # "" => got.result = 0
           /\ IF resp.failed # "" THEN got.err.kind # ""
              ELSE IF resp.status # 200
              THEN /\ got.err.kind = "API error (status)"
                   /\ got.err.code = resp.status
                   /\ got.err.text = resp.body
              ELSE IF d.err
              THEN got.err.kind = "failed to parse response"
              ELSE IF ~d.resp.Success
              THEN got.err.kind = "API error" /\ got.err.text = d.resp.Error
              ELSE got.err.kind = "" /\ got.result = d.resp.Result

C8_Witness ==
    /\ client.pc = "printed" /\ client.last.posted
    /\ client.resp.failed = "" /\ client.resp.status = 200
    /\ client.resp.body = << Garbage >>
    /\ client.last.err.kind = "failed to parse response"

\* The numerals strconv.Atoi accepts among the tokens of the input lines.
ValidIntegers ==
    {Itoa(n) : n \in GoInt} \cup {<< "+" >> \o Itoa(n) : n \in 0..MaxInt}

\* C9 as stated: a line with fewer than three tokens, or whose second or third
\* token is no valid integer, gets a local error and no request; the error for
\* a bad number names the operand, the first when both are bad.
C9_Original ==
    (client.pc = "printed")
    => LET parts == Fields(client.input)
           got   == client.last
       IN  /\ (Len(parts) < 3 \/ parts[2] \notin ValidIntegers \/ parts[3] \notin ValidIntegers)
              => (got.err.kind # "" /\ ~got.posted)
           /\ (Len(parts) >= 3 /\ parts[2] \notin ValidIntegers)
              => got.err.kind = "first number is invalid"
           /\ (Len(parts) >= 3 /\ parts[2] \in ValidIntegers /\ parts[3] \notin ValidIntegers)
              => got.err.kind = "second number is invalid"

\* C9, amended: the error names the bad operand when the first token, in lower
\* case, is a supported operation; when it is not, the error is the one for an
\* unknown operation, whatever the operands are.
C9_LocalValidation ==
    (client.pc = "printed")
    => LET parts == Fields(client.input)
           got   == client.last
           known == Len(parts) >= 3 /\ ToLower(parts[1]) \in SupportedOperations
       IN  /\ (Len(parts) < 3 \/ parts[2] \notin ValidIntegers \/ parts[3] \notin ValidIntegers)
              => (got.err.kind # "" /\ ~got.posted)
           /\ Len(parts) < 3 => got.err.kind = "invalid input"
           /\ (Len(parts) >= 3 /\ ~known) => got.err.kind = "unknown operation"
           /\ (known /\ parts[2] \notin ValidIntegers)
              => got.err.kind = "first number is invalid"
           /\ (known /\ parts[2] \in ValidIntegers /\ parts[3] \notin ValidIntegers)
              => got.err.kind = "second number is invalid"

C9_Witness ==
    /\ client.pc = "printed"
    /\ Fields(client.input) = << OpUpper, << "x" >>, Itoa(MaxInt + 1) >>
    /\ client.last.err.kind = "first number is invalid"
    /\ ~client.last.posted

\* C10: Add, Subtract and Multiply return a+b, a-b and a*b reduced modulo the
\* width of int: the result is an int congruent to the exact value, also on
\* overflow, and the call returns.
C10_ArithmeticWraps ==
    engine.op \in {"Add", "Subtract", "Multiply"}
    => LET exact == CASE engine.op = "Add"      -> engine.a + engine.b
                      [] engine.op = "Subtract" -> engine.a - engine.b
                      [] engine.op = "Multiply" -> engine.a * engine.b
       IN  /\ engine.result \in GoInt
           /\ (engine.result - exact) % Modulus = 0
           /\ \A i \in 1..Len(engine.trace) :
                engine.trace[i].ev = "log" => engine.trace[i].what.port # "error"

C10_Witness ==
    /\ engine.op = "Add"
    /\ engine.a + engine.b > MaxInt
    /\ engine.result < 0

----------------------------------------------------------------------------
(* The engine's Divide, and the loggers' part in the results *)

\* q is the quotient of a by b truncated toward zero: the remainder is
\* smaller than the divisor and has the sign of the dividend.
IsTruncatedQuotient(q, a, b) ==
    LET r == a - q * b
    IN  /\ Abs(r) < Abs(b)
        /\ (r = 0 \/ (r > 0) = (a > 0))

\* The log entries of a trace, by the method of the logging port.
LoggedAt(trace, port) ==
    {i \in 1..Len(trace) : trace[i].ev = "log" /\ trace[i].what.port = port}

Panicked(trace) == \E i \in 1..Len(trace) : trace[i].ev = "panic"

\* C11, as stated: for all a and all nonzero b, Divide returns the quotient of
\* a by b truncated toward zero.
C11_Original ==
    (engine.op = "Divide" /\ engine.b # 0)
    => IsTruncatedQuotient(engine.result, engine.a, engine.b)

\* C11: for all a and all nonzero b, Divide returns the quotient of a by b
\* truncated toward zero (never floored), reduced modulo the width of int: it
\* is that quotient whenever the quotient is an int, and the one quotient that
\* is not, MinInt / -1, comes back as MinInt; Divide(0, b) = 0.
C11_DivideTruncates ==
    (engine.op = "Divide" /\ engine.b # 0)
    => /\ engine.result \in GoInt
       /\ \E q \in MinInt..(MaxInt + 1) :
            /\ IsTruncatedQuotient(q, engine.a, engine.b)
            /\ (engine.result - q) % Modulus = 0
            /\ (q \in GoInt => engine.result = q)
            /\ (q \notin GoInt =>
                  (engine.a = MinInt /\ engine.b = -1 /\ engine.result = MinInt))
       /\ (engine.a = 0 => engine.result = 0)
       /\ ~Panicked(engine.trace)

C11_Witness ==
    /\ engine.op = "Divide"
    /\ engine.a = -7
    /\ engine.b = 2
    /\ engine.result = -3

\* C12: Divide called directly with b = 0 returns 0 for every a and does not
\* panic: it logs an error and performs no division (no result is logged).
C12_DivideByZeroReturnsZero ==
    (engine.op = "Divide" /\ engine.b = 0)
    => /\ engine.result = 0
       /\ ~Panicked(engine.trace)
       /\ LoggedAt(engine.trace, "debug") = {}
       /\ (engine.lg # NoOpLogger
            => /\ Cardinality(LoggedAt(engine.trace, "error")) = 1
               /\ \A i \in LoggedAt(engine.trace, "error") :
                    engine.trace[i].what.level = "error")

C12_Witness ==
    /\ engine.op = "Divide"
    /\ engine.b = 0
    /\ engine.a = 5
    /\ engine.lg = "zap"
    /\ engine.result = 0
    /\ LoggedAt(engine.trace, "error") # {}

\* C18: logging never affects the numeric result: a Calculator method, with
\* whatever logger the Calculator was constructed, returns the value of the
\* package-level function of the same name (which uses the no-op logger).
C18_LoggerDoesNotChangeResult ==
    /\ engine.op = "Add"      => engine.result = Add(engine.a, engine.b)
    /\ engine.op = "Subtract" => engine.result = Subtract(engine.a, engine.b)
    /\ engine.op = "Multiply" => engine.result = Multiply(engine.a, engine.b)
    /\ engine.op = "Divide"   => engine.result = Divide(engine.a, engine.b)

C18_Witness ==
    /\ engine.op = "Subtract"
    /\ engine.lg = "slog"
    /\ engine.a = 2
    /\ engine.b = 5
    /\ engine.result = -3
    /\ LoggedAt(engine.trace, "info") # {}
    /\ Subtract(engine.a, engine.b) = -3

----------------------------------------------------------------------------
(* The response on the wire *)

\* C13: every CalculationResponse the service produces (a success envelope with
\* any result, 0 included, or an error envelope with any message), encoded by
\* the service and decoded by the client, yields the same result, success and
\* error values, and decoding reports no error.
C13_ResponseRoundTrip ==
    (codec.phase = "decoded")
    => /\ ~codec.decoded.err
       /\ codec.decoded.resp.Result = codec.resp.Result
       /\ codec.decoded.resp.Success = codec.resp.Success
       /\ codec.decoded.resp.Error = codec.resp.Error

C13_Witness ==
    /\ codec.phase = "decoded"
    /\ ~codec.resp.Success
    /\ codec.resp.Error = MsgUnknownOperation \o << "<", "7" >>
    /\ "error" \in DOMAIN codec.wire[1].obj
    /\ codec.decoded.resp.Error = codec.resp.Error

\* The steps of a handler run that are calls of the ResponseWriter `ev`.
StepsOf(x, ev) == {i \in 1..Len(x.trace) : x.trace[i].ev = ev}

\* The handler set Content-Type to application/json and only then wrote the
\* status line, which went out with that header.
JSONBeforeStatus(x) ==
    /\ x.status # 0
    /\ x.contentType = ContentTypeJSON
    /\ \E w \in StepsOf(x, "write_header") :
         /\ \A v \in StepsOf(x, "write_header") : w <= v
         /\ \A v \in StepsOf(x, "write") \cup StepsOf(x, "write_failed") : w < v
         /\ \E h \in StepsOf(x, "set_header") :
              /\ h < w
              /\ x.trace[h].what = ContentTypeJSON
              /\ \A g \in StepsOf(x, "set_header") : g < w => g <= h

\* C14: every response written by the /calculate and /health handlers (success,
\* parse error, client error) carries Content-Type: application/json, and the
\* header is set before the status code is written.
C14_ContentTypeJSON ==
    /\ calc.phase = "sent" => JSONBeforeStatus(calc.x)
    /\ health.phase = "sent" => JSONBeforeStatus(health.x)

C14_Witness ==
    /\ calc.phase = "sent"
    /\ calc.body = Garbage
    /\ calc.x.status = StatusBadRequest
    /\ calc.x.contentType = ContentTypeJSON
    /\ health.phase = "sent"
    /\ health.x.contentType = ContentTypeJSON

----------------------------------------------------------------------------
(* The service process *)

\* The entries and the exit of the process log, by kind.
ServerLogged(port) ==
    {i \in 1..Len(server.log) :
        server.log[i].ev = "log" /\ server.log[i].what.port = port}

ServerExits == {i \in 1..Len(server.log) : server.log[i].ev = "exit"}

\* C15: the service shuts down gracefully on an interrupt or termination
\* signal: when main has returned after the signal, every request that was in
\* flight when the signal arrived has had its response sent.
C15_GracefulShutdown ==
    (server.main = "returned")
    => \A i \in server.atSignal : server.reqs[i] = "answered"

----------------------------------------------------------------------------
(* The client's calls of the service *)

\* C17: "divide <a> 0" entered in the client of a running service that answers
\* is reported as "Error: API error: Division by zero": the message of the
\* server, without the status code and the raw body.
C17_DivideByZeroMessage ==
    (/\ client.pc = "printed"
     /\ client.peer = "service"
     /\ Fields(client.input) = << OpDivide, Itoa(5), Itoa(0) >>
     /\ client.resp.failed = "")
    => /\ client.out = "Error: "
       /\ client.last.err.kind = "API error"
       /\ client.last.err.code = 0
       /\ client.last.err.text = MsgDivisionByZero

\* The line passes the client's local validation.
PassesValidation(input) ==
    LET parts == Fields(input)
    IN  /\ Len(parts) >= 3
        /\ ToLower(parts[1]) \in SupportedOperations
        /\ parts[2] \in ValidIntegers
        /\ parts[3] \in ValidIntegers

\* The call has failed: no response, a status other than 200, or a body
\* that is no CalculationResponse.
CallFailed(resp) ==
    \/ resp.failed # ""
    \/ resp.status # StatusOK
    \/ DecodeResponse(resp.body).err

\* C19: no retry exists: the step that executes a command sends exactly one
\* POST /calculate when the command passes local validation and none when
\* it does not, no other step sends one, and when the call fails the step
\* ends with the error handed to the caller and printed.
C19_NoRetry ==
    [][ IF client.pc = "scanned" /\ client'.pc = "printed"
        THEN /\ PassesValidation(client.input)
                => /\ client'.posts = client.posts + 1
                   /\ client'.last.posted
                   /\ CallFailed(client'.resp)
                      => /\ client'.last.err.kind \in
                              {"request failed", "failed to read response",
                               "API error (status)", "failed to parse response"}
                         /\ client'.out = "Error: "
             /\ ~PassesValidation(client.input) => client'.posts = client.posts
        ELSE client'.posts = client.posts ]_vars

C19_Witness ==
    /\ client.pc = "printed"
    /\ PassesValidation(client.input)
    /\ client.resp.failed = "send"
    /\ client.last.err.kind = "request failed"
    /\ client.commands = 1
    /\ client.posts = 1

----------------------------------------------------------------------------
(* pkg/slogger *)

SloggerSteps(ev) == {i \in 1..Len(slogger.trace) : slogger.trace[i].ev = ev}

----------------------------------------------------------------------------
(* The life of a request *)

\* C21: every request to /calculate goes from Received through Parsing and
\* ParseError or Dispatching, ClientError or Success, to Sent, and every request
\* reaches Sent.  In a finite run: when the service has ended by the return of
\* main, no request that was received is left without its response.
C21_EveryRequestSent ==
    (server.main = "returned")
    => \A i \in RequestIds : server.reqs[i] \in {"none", "answered"}

----------------------------------------------------------------------------
(* The log entries of a /calculate exchange *)

\* The entries a handler run logged through the method `port` of the logger.
EntriesOf(x, port) ==
    {i \in 1..Len(x.trace) : x.trace[i].ev = "log" /\ x.trace[i].what.port = port}

\* The handler answered with an error envelope (written or not).
ErrorPath(x) == \E obj \in Envelopes(x) : obj.success = JBool(FALSE)

\* The request is logged through Info, at info level, before the switch and
\* before any call of the engine.
InfoBeforeEngine(x) ==
    \E i \in EntriesOf(x, "info") :
        /\ x.trace[i].what.level = "info"
        /\ \A s \in StepsOf(x, "switch") \cup StepsOf(x, "call") : i < s

\* An entry is logged through Warn, at the level `level`, before the status
\* and the body of the response are written.
WarnBeforeResponse(x, level) ==
    \E i \in EntriesOf(x, "warn") :
        /\ x.trace[i].what.level = level
        /\ \A s \in StepsOf(x, "write_header") \cup StepsOf(x, "write")
                    \cup StepsOf(x, "write_failed") : i < s

\* C22, as stated: every dispatch logs the request at Info level before any
\* engine operation, and every error path emits an entry at Warn level before
\* the status and the body are written, with zap and with slog.
C22_Original ==
    (calc.phase = "sent")
    => /\ Dispatched(calc.x) => InfoBeforeEngine(calc.x)
       /\ ErrorPath(calc.x) => WarnBeforeResponse(calc.x, "warn")

\* C22: every dispatch logs the request at Info level before any engine
\* operation, and every error path (parse error, unknown operation, division
\* by zero) logs through the logger's Warnf before the status and the body are
\* written; the entry is at Warn level with zap, and with slog it is emitted at
\* Info level (SlogAdapter has no Warn).
C22_LogBeforeResponse ==
    (calc.phase = "sent")
    => /\ Dispatched(calc.x) => InfoBeforeEngine(calc.x)
       /\ ErrorPath(calc.x)
          => WarnBeforeResponse(calc.x, IF logSystem = "zap" THEN "warn" ELSE "info")
       /\ (logSystem = "slog" /\ ErrorPath(calc.x))
          => \A i \in EntriesOf(calc.x, "warn") : calc.x.trace[i].what.level # "warn"

C22_Witness ==
    /\ calc.phase = "sent"
    /\ logSystem = "slog"
    /\ Dispatched(calc.x)
    /\ ErrorPath(calc.x)
    /\ calc.x.status = StatusBadRequest
    /\ EntriesOf(calc.x, "warn") # {}

----------------------------------------------------------------------------
(* Failures of the encoder *)

\* C23: when encoding the health payload fails while GET /health is handled,
\* the response has status 500 and no body.
C23_HealthEncodeFailure ==
    (health.phase = "sent" /\ EncodeFailed(health.x))
    => /\ health.x.status = StatusInternalServerError
       /\ health.x.body = << >>

\* The plain texts the handler wrote or tried to write.
TextsOf(x) ==
    {x.trace[i].what.obj.text.v : i \in {j \in 1..Len(x.trace) :
        /\ x.trace[j].ev \in {"write", "write_failed"}
        /\ x.trace[j].what.kind = "text"}}

\* C24: when serializing a /calculate envelope fails, the failure is logged at
\* Error level; for an error envelope the response becomes the plain text
\* "Internal server error" with status 500 in place of the JSON envelope, for a
\* success envelope the failure is only logged.
C24_EncodeFailureFallback ==
    (calc.phase = "sent" /\ EncodeFailed(calc.x))
    => /\ \E i \in EntriesOf(calc.x, "error") : calc.x.trace[i].what.level = "error"
       /\ ErrorPath(calc.x)
          => /\ calc.x.status = StatusInternalServerError
             /\ calc.x.contentType = ContentTypeText
             /\ TextsOf(calc.x) = {MsgInternalError}
       /\ ~ErrorPath(calc.x)
          => /\ calc.x.status = StatusOK
             /\ TextsOf(calc.x) = {}

----------------------------------------------------------------------------
(* Requests handled at the same time *)

\* The success result a handler run sent, if it sent one.
SentResults(x) == {obj.result.v : obj \in {o \in Envelopes(x) : o.success = JBool(TRUE)}}

\* C25: no mutable state is shared across requests: in any interleaving of
\* the handlers, the status code and the envelope of each response are those
\* the service gives to that request's body when it is handled alone.
C25_RequestsAreIndependent ==
    \A i \in Handlers :
        (pool.h[i].phase = "sent")
        => LET alone == calculateHandler(logSystem, pool.h[i].body, pool.h[i].connOk)
           IN  /\ pool.h[i].x.status = alone.status
               /\ pool.h[i].x.contentType = alone.contentType
               /\ pool.h[i].x.body = alone.body
               /\ Envelopes(pool.h[i].x) = Envelopes(alone)

C25_Witness ==
    /\ pool.h[1].phase = "sent"
    /\ pool.h[1].x.status = StatusOK
    /\ pool.h[2].phase = "computed"
    /\ pool.h[1].body # pool.h[2].body
    /\ pool.result[2] \notin SentResults(pool.h[1].x)

----------------------------------------------------------------------------
(* The client's loop *)

\* C26: in the client's loop a failed command is never fatal: the client
\* prints "Error: <message>" and goes on to read the next command; the loop
\* ends only on the input quit, exit or q, or at the end of the input, and the
\* process then exits with status 0 unless the scanner reported an error.
C26_FailedCommandNotFatal ==
    [][ /\ (client.pc = "scanned" /\ client.input \notin {Quit, Exit, Q})
           => /\ client'.pc = "printed"
              /\ client'.exit = 0
              /\ client'.last.err.kind # "" => client'.out = "Error: "
        /\ client.pc = "printed" => (client'.pc = "prompt" /\ client'.exit = 0)
        /\ (client.pc \in {"prompt", "scanned", "printed"} /\ client'.pc = "exited")
           => \/ /\ client.pc = "scanned"
                 /\ client.input \in {Quit, Exit, Q}
                 /\ client'.exit = 0
              \/ /\ client.pc = "prompt"
                 /\ client'.exit = (IF client'.out = "Reading input" THEN 1 ELSE 0) ]_vars

C26_Witness ==
    /\ client.pc = "printed"
    /\ client.commands = 2
    /\ client.posts = 0
    /\ client.last.err.kind = "invalid input"
    /\ client.input = Quit \o << " " >>
    /\ client.out = "Error: "
    /\ client.exit = 0

\* C28: the client lower-cases the operation and rejects locally, before it
\* parses the operands and without a network call, every operation but add,
\* subtract, multiply and divide: each request it sends carries one of the four
\* lower-case names, "ADD 5 -3" is sent as add and succeeds, and the service
\* never answers the client with "Unknown operation".
C28_OperationValidatedLocally ==
    (client.pc = "printed")
    => LET parts == Fields(client.input)
           got   == client.last
       IN  /\ got.posted => got.req.Operation \in SupportedOperations
           /\ (Len(parts) >= 3 /\ ToLower(parts[1]) \notin SupportedOperations)
              => (~got.posted /\ got.err.kind = "unknown operation")
           /\ (/\ Len(parts) >= 3
               /\ parts[1] = OpUpper
               /\ parts[2] \in ValidIntegers
               /\ parts[3] \in ValidIntegers)
              => /\ got.posted
                 /\ got.req.Operation = OpAdd
                 /\ (client.peer = "service" /\ client.resp.failed = "")
                    => (got.err.kind = "" /\ client.resp.status = StatusOK)
           /\ (client.peer = "service" /\ got.posted)
              => \A k \in 1..Len(client.resp.body) :
                    (/\ client.resp.body[k].kind = "object"
                     /\ "error" \in DOMAIN client.resp.body[k].obj)
                    => client.resp.body[k].obj.error.v[1] # MsgUnknownOperation[1]

C28_Witness ==
    /\ client.pc = "printed"
    /\ client.peer = "service"
    /\ Fields(client.input) = << OpUpper, Itoa(5), Itoa(-3) >>
    /\ client.last.posted
    /\ client.last.req.Operation = OpAdd
    /\ client.last.err.kind = ""
    /\ client.last.result = 2

----------------------------------------------------------------------------
(* Status, envelope and missing members *)

\* C27: in every response of the /calculate handler the status and the
\* envelope's success flag agree: 200 exactly with success=true, 400 exactly
\* with success=false; so the client's branch for a 200 response with
\* success=false is never taken against this service.
C27_StatusMatchesSuccess ==
    (calc.phase = "sent")
    => /\ Cardinality(Envelopes(calc.x)) = 1
       /\ \A obj \in Envelopes(calc.x) :
            /\ (calc.x.status = StatusOK) <=> (obj.success = JBool(TRUE))
            /\ (calc.x.status = StatusBadRequest) <=> (obj.success = JBool(FALSE))
       /\ callCalculateAPI(Decoded.req, Received(calc.x)).err.kind # "API error"

C27_Witness ==
    /\ calc.phase = "sent"
    /\ calc.x.connOk
    /\ calc.x.status = StatusBadRequest
    /\ \E obj \in Envelopes(calc.x) : obj.success = JBool(FALSE)
    /\ callCalculateAPI(Decoded.req, Received(calc.x)).err.kind = "API error (status)"

\* The member of a request body, or the zero value of its field when the
\* member is missing.
MemberOr(obj, key, zero) == IF key \in DOMAIN obj THEN obj[key] ELSE zero

\* C29: a JSON object that omits members is not a parse error: a missing a or
\* b is taken as 0 and a missing operation as the empty string, so the answer
\* is the one to the body with those values written out; {} gives 400 with
\* "Unknown operation: ", {"operation":"divide","a":5} gives 400 with "Division
\* by zero", and neither gives "Invalid request format".
C29_MissingMembersAreZero ==
    (calc.phase = "sent" /\ calc.body.kind = "object")
    => LET obj    == calc.body.obj
           filled == JObject([operation |-> MemberOr(obj, "operation", JString(<< >>)),
                              a |-> MemberOr(obj, "a", JNumber(0)),
                              b |-> MemberOr(obj, "b", JNumber(0))])
           whole  == calculateHandler(logSystem, filled, calc.connOk)
       IN  /\ calc.x.status = whole.status
           /\ Envelopes(calc.x) = Envelopes(whole)
           /\ DOMAIN obj = {}
              => /\ calc.x.status = StatusBadRequest
                 /\ \A e \in Envelopes(calc.x) : IsErrorEnvelope(e, MsgUnknownOperation)
           /\ (/\ DOMAIN obj = {"operation", "a"}
               /\ obj.operation = JString(OpDivide)
               /\ obj.a = JNumber(5))
              => /\ calc.x.status = StatusBadRequest
                 /\ \A e \in Envelopes(calc.x) : IsErrorEnvelope(e, MsgDivisionByZero)

C29_Witness ==
    /\ calc.phase = "sent"
    /\ calc.body = JObject([operation |-> JString(OpDivide), a |-> JNumber(5)])
    /\ calc.x.connOk
    /\ calc.x.status = StatusBadRequest
    /\ calc.x.body = << JObject([result |-> JNumber(0), success |-> JBool(FALSE),
                                  error |-> JString(MsgDivisionByZero)]) >>

----------------------------------------------------------------------------
(* cmd/app *)

\* The methods of the engine a command of the application called.
AppCalls == {app.last.trace[i].what : i \in {j \in 1..Len(app.last.trace) :
                app.last.trace[j].ev = "call"}}

\* C30: cmd/app dispatches only add and subtract to the engine: a line whose
\* lower-cased first token is anything else, multiply and divide included, is
\* answered "unknown operation" with no engine operation invoked, and only
\* after both operands have parsed as integers (an invalid operand is
\* reported first).
C30_AppOnlyAddSubtract ==
    (app.pc = "printed")
    => LET parts == Fields(app.input)
           got   == app.last
           other == Len(parts) >= 3 /\ ToLower(parts[1]) \notin {OpAdd, OpSubtract}
       IN  /\ AppCalls \subseteq {"Add", "Subtract"}
           /\ other => (got.err.kind # "" /\ AppCalls = {})
           /\ (other /\ parts[2] \in ValidIntegers /\ parts[3] \in ValidIntegers)
              => got.err.kind = "unknown operation"
           /\ (other /\ parts[2] \notin ValidIntegers)
              => got.err.kind = "first number is invalid"
           /\ (other /\ parts[2] \in ValidIntegers /\ parts[3] \notin ValidIntegers)
              => got.err.kind = "second number is invalid"
           /\ (/\ Len(parts) >= 3
               /\ ToLower(parts[1]) \in {OpAdd, OpSubtract}
               /\ parts[2] \in ValidIntegers
               /\ parts[3] \in ValidIntegers)
              => (got.err.kind = "" /\ Cardinality(AppCalls) = 1)

C30_Witness ==
    /\ app.pc = "printed"
    /\ Fields(app.input) = << OpDivide, Itoa(5), Itoa(0) >>
    /\ app.last.err.kind = "unknown operation"
    /\ AppCalls = {}
    /\ app.out = "Error: "

=============================================================================
